---------------------------- MODULE Spec2Model ----------------------------
(***************************************************************************)
(* A model of src/src/common/LuaSupport.cpp: the script loader             *)
(* (parseStringDefiningMultipleFunctions), the function environment builder*)
(* (setSurgeFunctionEnvironment), the native primitives registered in the  *)
(* environment (lua_limitRange, lua_FFTForward), the process-wide          *)
(* transform cache (fftCache) and its elements (FFTElement), the prelude   *)
(* loader (loadSurgePrelude) and the stack guard (SGLD).                   *)
(*                                                                         *)
(* The Lua engine is seen through its C API: an operand stack of values, a *)
(* table of globals, a heap of tables and one environment per function.    *)
(* Every lua_xxx operator below is the documented effect of the API call   *)
(* of that name (Lua 5.1) on that state.                                   *)
(***************************************************************************)
EXTENDS Integers, Sequences, FiniteSets, TLC

VARIABLES
    stack,          \* the operand stack of the lua_State (bottom first)
    globals,        \* the engine's global table: name -> value
    heap,           \* the tables of the engine: table id -> (key -> value)
    fenv,           \* function id -> id of its environment table (0: the globals)
    cache,          \* *fftCache: the entries, most recently used first
    errorMessage,   \* the caller's std::string &errorMessage after the call
    pc,             \* "idle" | "returned" | "raised" | "crashed", or the place
                    \* inside a scope or a loop the program is at
    ret,            \* what the last call returned
    args,           \* the inputs of the last call
    entry,          \* the state the last call was entered in
    afterRun,       \* the globals right after the chunk ran (line 108)
    guard,          \* the SGLD object of the scope the host is in
    cout,           \* the lines written to std::cout
    elements,       \* the FFTElement objects: slot -> its members, or dead
    native          \* the native allocations: pointer -> kind, size, releases

vars == <<stack, globals, heap, fenv, cache, errorMessage, pc, ret, args, entry,
          afterRun, guard, cout, elements, native>>

(***************************************************************************)
(* Bounds of the model.                                                    *)
(***************************************************************************)
\* the longest list of requested function names
MaxNames == 2
\* the deepest operand stack a load may leave
MaxStack == 3
\* the deepest operand stack setSurgeFunctionEnvironment is entered with
MaxWrapStack == 2
\* the most tables the engine holds
MaxTables == 5
\* the transform sizes requested are 2^0 .. 2^MaxLog
MaxLog == 5
\* the most lines the host lets std::cout collect before it opens no more scopes
MaxLines == 2
\* the numbers passed to limit_range are -MaxNumber .. MaxNumber
MaxNumber == 1
\* the storage slots that may hold an FFTElement
MaxElements == 2
\* the most FFTElement objects ever built from a size
MaxConstructions == 2

(***************************************************************************)
(* Lua values.  Every value is a record of one shape: t is the type tag, n *)
(* the number (or the id of a function or table), s the string.            *)
(***************************************************************************)
Nil == [t |-> "nil", n |-> 0, s |-> ""]

Num(k) == [t |-> "number", n |-> k, s |-> ""]

Str(x) == [t |-> "string", n |-> 0, s |-> x]

Fn(id) == [t |-> "function", n |-> id, s |-> ""]

Tbl(id) == [t |-> "table", n |-> id, s |-> ""]

(***************************************************************************)
(* The stack part of the C API.                                            *)
(***************************************************************************)
\* a (negative or positive) acceptable index as a position in the stack
AbsIndex(s, idx) == IF idx < 0 THEN Len(s) + idx + 1 ELSE idx

At(s, idx) == s[AbsIndex(s, idx)]

lua_gettop(s) == Len(s)

lua_pushnil(s) == Append(s, Nil)

lua_pushstring(s, x) == Append(s, Str(x))

lua_pushnumber(s, k) == Append(s, Num(k))

lua_pushcfunction(s, id) == Append(s, Fn(id))

lua_pop(s, n) == SubSeq(s, 1, Len(s) - n)

lua_pushvalue(s, idx) == Append(s, At(s, idx))

lua_remove(s, idx) ==
    LET i == AbsIndex(s, idx)
    IN  SubSeq(s, 1, i - 1) \o SubSeq(s, i + 1, Len(s))

lua_getglobal(s, g, name) == Append(s, g[name])

lua_isfunction(s, idx) == At(s, idx).t = "function"

lua_isnil(s, idx) == At(s, idx).t = "nil"

\* decimal digits of a natural number, as lua_tostring formats it
RECURSIVE NatToStr(_)
NatToStr(k) ==
    LET d == <<"0", "1", "2", "3", "4", "5", "6", "7", "8", "9">>
    IN  IF k < 10 THEN d[k + 1] ELSE NatToStr(k \div 10) \o d[(k % 10) + 1]

\* lua_tostring: the string of a string or a number, NULL for anything else
lua_tostring(s, idx) ==
    LET v == At(s, idx)
    IN  CASE v.t = "string" -> [null |-> FALSE, str |-> v.s]
          [] v.t = "number" ->
                [null |-> FALSE,
                 str |-> IF v.n < 0 THEN "-" \o NatToStr(-v.n) ELSE NatToStr(v.n)]
          [] OTHER -> [null |-> TRUE, str |-> ""]


(***************************************************************************)
(* Names and values the model draws its inputs from.                       *)
(***************************************************************************)
\* the names a caller asks the loader for
ReqNames == {"f", "g"}

\* globals a freshly opened engine has besides the requested names
LibNames == {"math", "surge", "ipairs", "error", "os"}

GlobalNames == ReqNames \cup LibNames

\* ids of functions: script closures, the compiled chunk, C functions
ScriptFn == Fn(1)

ChunkFn == Fn(2)

IpairsFn == Fn(3)

ErrorFn == Fn(4)

\* ids of the tables a freshly opened engine holds
MathTbl == Tbl(1)

OsTbl == Tbl(2)

SurgeTbl == Tbl(3)

\* sequences over S of length 0..n
SeqsUpTo(S, n) == UNION {[1..k -> S] : k \in 0..n}

(***************************************************************************)
(* A script text (the `definition` argument) is modelled by what the       *)
(* engine does with it: whether it compiles, which globals its top-level   *)
(* body has assigned when it ends or raises, and the error value raised.   *)
(***************************************************************************)
\* values a chunk may assign to a requested name
ChunkValues == {ScriptFn, Str("text"), Nil}

\* the assignments a chunk's body makes: a function on some requested names
ChunkWrites == UNION {[D -> ChunkValues] : D \in SUBSET ReqNames}

\* error values a chunk may raise: error("boom"), error({}), error()
ErrorValues == {Str("boom"), OsTbl, Nil}

NoWrites == [x \in {} |-> Nil]

Definitions ==
    {[load |-> "syntax", run |-> "ok", writes |-> NoWrites, err |-> Nil],
     [load |-> "mem", run |-> "ok", writes |-> NoWrites, err |-> Nil]}
    \cup {[load |-> "ok", run |-> "ok", writes |-> w, err |-> Nil] :
            w \in ChunkWrites}
    \cup {[load |-> "ok", run |-> "error", writes |-> w, err |-> e] :
            w \in ChunkWrites, e \in ErrorValues}

\* luaL_loadbuffer: pushes the compiled chunk, or the error message
luaL_loadbuffer(s, def) ==
    CASE def.load = "ok" ->
            [status |-> "LUA_OK", stack |-> Append(s, ChunkFn)]
      [] def.load = "syntax" ->
            [status |-> "LUA_ERRSYNTAX",
             stack |-> Append(s, Str("lua-script:1: '=' expected near '<eof>'"))]
      [] OTHER ->
            [status |-> "LUA_ERRMEM", stack |-> Append(s, Str("not enough memory"))]

\* the globals after the chunk's body ran (to its end, or to the error)
RunChunk(g, def) ==
    [k \in DOMAIN g |-> IF k \in DOMAIN def.writes THEN def.writes[k] ELSE g[k]]

\* lua_pcall(L, 0, nresults, 0) of the chunk on top of the stack: pops it, runs
\* it; on an error pushes the error value (nresults is 0 at line 108)
lua_pcall(s, g, def) ==
    IF def.run = "ok"
    THEN [status |-> "LUA_OK", stack |-> lua_pop(s, 1), globals |-> RunChunk(g, def)]
    ELSE [status |-> "LUA_ERRRUN", stack |-> Append(lua_pop(s, 1), def.err),
          globals |-> RunChunk(g, def)]

(***************************************************************************)
(* oss << prefix << lua_tostring(L, -1) (lines 92-94, 98-100, 112-114).    *)
(* Streaming a null const char * is undefined: libstdc++ sets badbit and   *)
(* inserts nothing, libc++ and the MSVC library call strlen on it and the  *)
(* process dies.  `stl` is the outcome the build produces.                 *)
(***************************************************************************)
StlOutcomes == {"badbit", "strlen"}

StreamMessage(prefix, cstr, stl) ==
    IF cstr.null
    THEN IF stl = "badbit" THEN [crashed |-> FALSE, text |-> prefix]
                           ELSE [crashed |-> TRUE, text |-> ""]
    ELSE [crashed |-> FALSE, text |-> prefix \o cstr.str]

\* for (auto f : functions) lua_pushnil(L);   (lines 103-104, 116-117)
RECURSIVE PushNils(_, _)
PushNils(s, k) == IF k = 0 THEN s ELSE PushNils(lua_pushnil(s), k - 1)

\* the mutant of Reverse that keeps the order of the names
ForwardOrder(q) == q

\* std::vector<std::string> frev(functions.rbegin(), functions.rend());
Reverse(q) == [i \in 1..Len(q) |-> q[Len(q) + 1 - i]]

\* the mutant of ExtractOne that counts every global that is not nil
ExtractOneCountsNonNil(s, g, functionName) ==
    LET s1 == lua_getglobal(s, g, functionName)
    IN  IF lua_isfunction(s1, -1)
        THEN [stack |-> s1, inc |-> 1]
        ELSE IF ~lua_isnil(s1, -1)
        THEN [stack |-> lua_pushnil(lua_pop(s1, 1)), inc |-> 1]
        ELSE [stack |-> s1, inc |-> 0]

\* the mutant of ExtractOne that leaves a value that is no function where it is
ExtractOneKeepsValue(s, g, functionName) ==
    LET s1 == lua_getglobal(s, g, functionName)
    IN  IF lua_isfunction(s1, -1)
        THEN [stack |-> s1, inc |-> 1]
        ELSE [stack |-> s1, inc |-> 0]

\* the body of the loop of lines 124-135, for one name
ExtractOne(s, g, functionName) ==
    LET s1 == lua_getglobal(s, g, functionName)
    IN  IF lua_isfunction(s1, -1)
        THEN [stack |-> s1, inc |-> 1]
        ELSE IF ~lua_isnil(s1, -1)
        THEN [stack |-> lua_pushnil(lua_pop(s1, 1)), inc |-> 0]
        ELSE [stack |-> s1, inc |-> 0]

\* for (auto functionName : frev) ...   (lines 122-135), from position i on
RECURSIVE ExtractLoop(_, _, _, _, _)
ExtractLoop(s, g, frev, i, res) ==
    IF i > Len(frev)
    THEN [stack |-> s, res |-> res]
    ELSE LET one == ExtractOne(s, g, frev[i])
         IN  ExtractLoop(one.stack, g, frev, i + 1, res + one.inc)

(***************************************************************************)
(* parseStringDefiningMultipleFunctions (lines 81-141), as a function of   *)
(* the stack and globals at entry and of its arguments.  The result holds  *)
(* the stack, the globals, errorMessage and the returned count, or says    *)
(* that the process crashed.                                               *)
(***************************************************************************)
ParseResult(s, g, msg, res, ar) ==
    [crashed |-> FALSE, stack |-> s, globals |-> g, errorMessage |-> msg,
     res |-> res, afterRun |-> ar]

ParseCrash(s, g, ar) ==
    [crashed |-> TRUE, stack |-> s, globals |-> g, errorMessage |-> "",
     res |-> 0, afterRun |-> ar]

\* lines 88-106: the chunk did not load
ParseLoadFailed(s, g, lerr, functions, stl) ==
    LET prefix == IF lerr = "LUA_ERRSYNTAX" THEN "Lua Syntax Error: "
                                            ELSE "Lua Unknown Error: "
        m == StreamMessage(prefix, lua_tostring(s, -1), stl)
    IN  IF m.crashed
        THEN ParseCrash(s, g, g)
        ELSE ParseResult(PushNils(lua_pop(s, 1), Len(functions)), g, m.text, 0, g)

\* lines 109-119: the chunk raised an error when it ran
ParseRunFailed(s, g, functions, stl) ==
    LET m == StreamMessage("Lua Evaluation Error: ", lua_tostring(s, -1), stl)
    IN  IF m.crashed
        THEN ParseCrash(s, g, g)
        ELSE ParseResult(PushNils(lua_pop(s, 1), Len(functions)), g, m.text, 0, g)

\* the mutant of ParseExtract that unbinds every requested global it fetched
ParseExtractUnbinds(s, g, functions) ==
    LET x == ExtractLoop(s, g, Reverse(functions), 1, 0)
        g1 == [k \in DOMAIN g |->
                 IF \E i \in DOMAIN functions : functions[i] = k THEN Nil ELSE g[k]]
    IN  ParseResult(x.stack, g1, "", x.res, g)

\* lines 121-137: the chunk ran; fetch each requested global
ParseExtract(s, g, functions) ==
    LET x == ExtractLoop(s, g, Reverse(functions), 1, 0)
    IN  ParseResult(x.stack, g, "", x.res, g)

parseStringDefiningMultipleFunctions(s, g, definition, functions, stl) ==
    LET ld == luaL_loadbuffer(s, definition)
    IN  IF ld.status # "LUA_OK"
        THEN ParseLoadFailed(ld.stack, g, ld.status, functions, stl)
        ELSE LET pr == lua_pcall(ld.stack, g, definition)
             IN  IF pr.status # "LUA_OK"
                 THEN ParseRunFailed(pr.stack, pr.globals, functions, stl)
                 ELSE ParseExtract(pr.stack, pr.globals, functions)

(***************************************************************************)
(* The engine after luaL_openlibs: the library globals are bound, the      *)
(* requested names are not.  A table is a function from keys to values; a  *)
(* key that is absent reads as nil.                                        *)
(***************************************************************************)
EmptyTable == [k \in {} |-> Nil]

MathFn == Fn(5)

\* the C functions lua_limitRange (line 143) and lua_FFTForward (line 158)
LimitRangeFn == Fn(7)

FFTForwardFn == Fn(8)

MathTable == [k \in {Str("sin"), Str("pi")} |-> IF k.s = "sin" THEN MathFn ELSE Num(3)]

OsTable == [k \in {Str("exit")} |-> Fn(5)]

SurgeTable == [k \in {Str("mod")} |-> Fn(6)]

OpenedHeap == <<MathTable, OsTable, SurgeTable>>

OpenedGlobals ==
    [k \in GlobalNames |->
        CASE k = "math" -> MathTbl
          [] k = "os" -> OsTbl
          [] k = "surge" -> SurgeTbl
          [] k = "ipairs" -> IpairsFn
          [] k = "error" -> ErrorFn
          [] OTHER -> Nil]

\* every function resolves its globals in the global table until it is wrapped
NoEnv == [id \in 1..8 |-> 0]

NoCall == [op |-> "none"]

\* no scope is guarded
NoGuard == [L |-> FALSE, label |-> "", top |-> 0]

\* a storage slot that holds no FFTElement
NoElement == [alive |-> FALSE, size |-> 0, data |-> 0, setup |-> 0]

\* the host has no guard, has printed nothing and holds no FFTElement of its own
NoHostObjects ==
    /\ guard = NoGuard
    /\ cout = << >>
    /\ elements = << >>
    /\ native = << >>

(***************************************************************************)
(* The script loader: any sequence of loads on one engine.                 *)
(***************************************************************************)
InitParse ==
    /\ stack \in {<< >>, <<Str("host")>>}
    /\ globals = OpenedGlobals
    /\ heap = OpenedHeap
    /\ fenv = NoEnv
    /\ cache = << >>
    /\ errorMessage = ""
    /\ pc = "idle"
    /\ ret = NoCall
    /\ args = NoCall
    /\ entry = NoCall
    /\ afterRun = OpenedGlobals
    /\ NoHostObjects

\* a call of parseStringDefiningMultipleFunctions(L, definition, functions,
\* errorMessage) with an empty errorMessage; with `remember` the history also
\* keeps which of the requested names the body of the chunk assigns
ParseCall(remember) ==
    /\ pc # "crashed"
    /\ \E functions \in SeqsUpTo(ReqNames, MaxNames) :
       /\ Len(stack) + Len(functions) <= MaxStack
       /\ \E definition \in Definitions, stl \in StlOutcomes :
          \* the library only matters where a null pointer is streamed
          /\ (stl = "strlen") =>
                (definition.run = "error" /\ definition.err.t \in {"table", "nil"})
          /\ \E r \in {parseStringDefiningMultipleFunctions(stack, globals,
                                                    definition, functions, stl)} :
                 /\ pc' = IF r.crashed THEN "crashed" ELSE "returned"
                 /\ stack' = r.stack
                 /\ globals' = r.globals
                 /\ errorMessage' = r.errorMessage
                 /\ afterRun' = r.afterRun
                 /\ ret' = [op |-> "parse", res |-> r.res]
                 /\ args' = [op |-> "parse", functions |-> functions,
                             load |-> definition.load, run |-> definition.run,
                             writes |-> IF remember
                                        THEN {functions[i] : i \in DOMAIN functions}
                                                \cap DOMAIN definition.writes
                                        ELSE {}]
                 /\ entry' = [op |-> "parse", stack |-> stack]
    /\ UNCHANGED <<heap, fenv, cache, guard, cout, elements, native>>

Parse == ParseCall(FALSE)

NextParse == Parse

SpecParse == InitParse /\ [][NextParse]_vars

(***************************************************************************)
(* Properties of the script loader.                                        *)
(***************************************************************************)
\* the last call was a load whose chunk did not compile, or raised when run
ParseFailed == args.op = "parse" /\ (args.load # "ok" \/ args.run = "error")

\* the last call was a load whose chunk compiled and ran to its end
ParseSucceeded == args.op = "parse" /\ args.load = "ok" /\ args.run = "ok"

HasPrefix(str, prefix) ==
    Len(str) >= Len(prefix) /\ SubSeq(str, 1, Len(prefix)) = prefix

\* the stack slot the load pushed for functions[i]: the first name's is on top
Slot(i) == stack[Len(stack) - i + 1]

\* the positions of the requested names whose global is a function after the run
CallablePositions ==
    {i \in DOMAIN args.functions : afterRun[args.functions[i]].t = "function"}

\* the positions of the requested names whose global is neither nil nor a function
ShadowedPositions ==
    {i \in DOMAIN args.functions :
        afterRun[args.functions[i]].t \notin {"function", "nil"}}

\* C1: a load that fails to compile, or whose body raises, returns 0, sets a
\* non-empty diagnostic with the prefix of its kind, pops the engine's error
\* value and leaves one nil per requested name on the stack it was entered with.
C1_FailedLoadLeavesNulls ==
    ParseFailed =>
        /\ pc = "returned"
        /\ ret.res = 0
        /\ errorMessage # ""
        /\ (args.load = "syntax" => HasPrefix(errorMessage, "Lua Syntax Error: "))
        /\ (args.load = "ok" => HasPrefix(errorMessage, "Lua Evaluation Error: "))
        /\ stack = entry.stack \o [i \in 1..Len(args.functions) |-> Nil]

\* C2 as stated: after a load that succeeded, a requested name whose global was
\* neither nil nor a function when the chunk had run is now a nil global, and
\* is not counted.
C2_ShadowedGlobalIsCleared ==
    (ParseSucceeded /\ pc = "returned") =>
        /\ \A i \in ShadowedPositions : globals[args.functions[i]] = Nil
        /\ ret.res <= Len(args.functions) - Cardinality(ShadowedPositions)

\* C2 as amended: the stack slot pushed for such a name is nil and the name is
\* not counted, while the global keeps the value the chunk left in it.
C2_ShadowedSlotIsNil ==
    (ParseSucceeded /\ pc = "returned") =>
        /\ \A i \in ShadowedPositions :
              /\ Slot(i) = Nil
              /\ globals[args.functions[i]] = afterRun[args.functions[i]]
        /\ ret.res <= Len(args.functions) - Cardinality(ShadowedPositions)

C2_Witness ==
    /\ ParseSucceeded /\ pc = "returned"
    /\ \E i \in ShadowedPositions :
          /\ Slot(i) = Nil
          /\ globals[args.functions[i]].t = "string"

\* the permutations of 1..n
Perms(n) == {p \in [1..n -> 1..n] : \A i, j \in 1..n : p[i] = p[j] => i = j}

\* C3: after a load that succeeded the count is the number of requested names
\* whose global is a function after the run, lies in 0..len, is len when every
\* requested name is a function, and is the count of every reordering of the
\* requested names.
C3_CountIsCallables ==
    (ParseSucceeded /\ pc = "returned") =>
        LET n == Len(args.functions)
        IN  /\ ret.res = Cardinality(CallablePositions)
            /\ ret.res \in 0..n
            /\ (\A i \in 1..n : afterRun[args.functions[i]].t = "function")
                  => ret.res = n
            /\ \A p \in Perms(n) :
                  ParseExtract(entry.stack, afterRun,
                               [i \in 1..n |-> args.functions[p[i]]]).res = ret.res

C3_Witness ==
    /\ ParseSucceeded /\ pc = "returned"
    /\ Len(args.functions) = 2
    /\ args.functions[1] # args.functions[2]
    /\ globals[args.functions[1]].t = "function"
    /\ globals[args.functions[2]].t = "function"
    /\ ret.res = 2

(***************************************************************************)
(* The table part of the C API.  M is the engine: its operand stack, its   *)
(* tables and the environment of each function; M.ub is set once a call    *)
(* is made outside its documented domain (undefined behaviour).            *)
(***************************************************************************)
Engine(s, h, e) == [stack |-> s, heap |-> h, fenv |-> e, ub |-> FALSE]

OnStack(M, s) == [M EXCEPT !.stack = s]

Undefined(M) == [M EXCEPT !.ub = TRUE]

\* t[k] = v on a table without metatable; assigning nil removes the key
TableSet(tbl, k, v) ==
    IF v = Nil
    THEN [x \in DOMAIN tbl \ {k} |-> tbl[x]]
    ELSE [x \in DOMAIN tbl \cup {k} |-> IF x = k THEN v ELSE tbl[x]]

TableGet(tbl, k) == IF k \in DOMAIN tbl THEN tbl[k] ELSE Nil

\* lua_createtable: pushes a new empty table
lua_createtable(M) ==
    [M EXCEPT !.heap = Append(@, EmptyTable),
              !.stack = Append(@, Tbl(Len(M.heap) + 1))]

\* lua_settable(L, idx): t[k] = v for t at idx, v on top, k below it; pops both
lua_settable(M, idx) ==
    LET tv == At(M.stack, idx)
        k == At(M.stack, -2)
        v == At(M.stack, -1)
    IN  IF tv.t # "table" \/ k = Nil
        THEN Undefined(M)
        ELSE [M EXCEPT !.heap[tv.n] = TableSet(@, k, v),
                       !.stack = lua_pop(@, 2)]

\* lua_next(L, idx): pops a key and pushes the pair that follows it in the
\* traversal `order` of the table at idx; pushes nothing after the last pair
lua_next(M, idx, order) ==
    LET tv == At(M.stack, idx)
        k == At(M.stack, -1)
        s1 == lua_pop(M.stack, 1)
        pos == IF k = Nil THEN 0 ELSE CHOOSE i \in 1..Len(order) : order[i] = k
    IN  IF tv.t # "table"
        THEN [more |-> FALSE, M |-> Undefined(M)]
        ELSE IF pos = Len(order)
        THEN [more |-> FALSE, M |-> OnStack(M, s1)]
        ELSE [more |-> TRUE,
              M |-> OnStack(M, Append(Append(s1, order[pos + 1]),
                                      M.heap[tv.n][order[pos + 1]]))]

\* lua_setfenv(L, idx): pops a table and makes it the environment of the
\* value at idx; a value that has no environment is left alone
lua_setfenv(M, idx) ==
    LET f == At(M.stack, idx)
        e == At(M.stack, -1)
    IN  IF e.t # "table"
        THEN Undefined(M)
        ELSE IF f.t = "function"
        THEN [M EXCEPT !.fenv[f.n] = e.n, !.stack = lua_pop(@, 1)]
        ELSE OnStack(M, lua_pop(M.stack, 1))

\* the orders lua_next may traverse a table in: the sequences of its keys
KeyOrders(tbl) ==
    {q \in [1..Cardinality(DOMAIN tbl) -> DOMAIN tbl] :
        \A i, j \in DOMAIN q : q[i] = q[j] => i = j}

(***************************************************************************)
(* setSurgeFunctionEnvironment (lines 195-264).                            *)
(***************************************************************************)
\* the mutant of FunctionWhitelist that lets the os library through
FunctionWhitelistWithOs == <<"ipairs", "error", "os">>

\* std::vector<std::string> functionWhitelist   (line 218)
FunctionWhitelist == <<"ipairs", "error">>

\* lua_pushstring(name); lua_getglobal(name); lua_settable(L, -3)
\* (lines 207-210, 212-215, 221-223)
CopyGlobal(M, g, name) ==
    lua_settable(OnStack(M, lua_getglobal(lua_pushstring(M.stack, name), g, name)),
                 -3)

\* for (const auto &f : functionWhitelist) ...   (lines 219-224)
RECURSIVE CopyWhitelist(_, _, _, _)
CopyWhitelist(M, g, list, i) ==
    IF i > Len(list) THEN M
    ELSE CopyWhitelist(CopyGlobal(M, g, list[i]), g, list, i + 1)

\* lua_pushstring(name); lua_pushcfunction(fn); lua_settable(L, -3)
\* (lines 226-228, 230-232, 234-236)
RegisterPrimitive(M, name, fn) ==
    lua_settable(OnStack(M, lua_pushcfunction(lua_pushstring(M.stack, name), fn.n)),
                 -3)

\* the mutant of FlattenPair that leaves the copy of the value on the stack
FlattenPairKeepsValue(M) ==
    LET M1 == OnStack(M, lua_pushvalue(lua_pushvalue(M.stack, -2), -2))
    IN  lua_settable(M1, -6)

\* the body of the while loop, lines 245-251: copy the pair into the table
FlattenPair(M) ==
    LET M1 == OnStack(M, lua_pushvalue(lua_pushvalue(M.stack, -2), -2))
        M2 == lua_settable(M1, -6)
    IN  IF M2.ub THEN M2 ELSE OnStack(M2, lua_pop(M2.stack, 1))

\* while (lua_next(L, -2)) ...   (lines 243-252)
RECURSIVE FlattenLoop(_, _)
FlattenLoop(M, order) ==
    LET nx == lua_next(M, -2, order)
    IN  IF nx.M.ub \/ ~nx.more THEN nx.M
        ELSE LET M1 == FlattenPair(nx.M)
             IN  IF M1.ub THEN M1 ELSE FlattenLoop(M1, order)

\* the mutant of FlattenMath that leaves the math table on the stack
FlattenMathNoPop(M, g, order) ==
    LET M1 == OnStack(M, lua_pushnil(lua_getglobal(M.stack, g, "math")))
    IN  FlattenLoop(M1, order)

\* lua_getglobal(L, "math"); lua_pushnil(L)   (lines 239-241)
FlattenStart(M, g) == OnStack(M, lua_pushnil(lua_getglobal(M.stack, g, "math")))

\* lines 239-255: push math and nil, run the loop, pop math
FlattenMath(M, g, order) ==
    LET M1 == FlattenStart(M, g)
        M2 == FlattenLoop(M1, order)
    IN  IF M2.ub THEN M2 ELSE OnStack(M2, lua_pop(M2.stack, 1))

\* the mutant of BindEnvironment that also consumes the function
BindEnvironmentConsumes(M) ==
    LET M1 == lua_setfenv(M, -2)
    IN  IF M1.ub THEN M1 ELSE OnStack(M1, lua_pop(M1.stack, 1))

\* lua_setfenv(L, -2)   (line 258)
BindEnvironment(M) == lua_setfenv(M, -2)

\* lines 203-236: the new table with math, surge, the whitelist and the
\* primitives
PopulateEnvironment(M, g) ==
    LET M1 == lua_createtable(M)
        M2 == CopyGlobal(M1, g, "math")
        M3 == CopyGlobal(M2, g, "surge")
        M4 == CopyWhitelist(M3, g, FunctionWhitelist, 1)
        M5 == RegisterPrimitive(M4, "limit_range", LimitRangeFn)
        M6 == RegisterPrimitive(M5, "clamp", LimitRangeFn)
    IN  RegisterPrimitive(M6, "fft_forward", FFTForwardFn)

\* lines 203-258: build the table and bind it
BuildEnvironment(M, g, order) ==
    LET M7 == PopulateEnvironment(M, g)
        M8 == FlattenMath(M7, g, order)
    IN  IF M8.ub THEN M8 ELSE BindEnvironment(M8)

\* the mutant of setSurgeFunctionEnvironment that builds the table before it
\* looks at the value it was given
WrapBuildsFirst(M, g, order) ==
    LET M1 == lua_createtable(M)
    IN  IF ~lua_isfunction(M1.stack, -2)
        THEN [res |-> FALSE, M |-> M1]
        ELSE [res |-> TRUE, M |-> BuildEnvironment(M, g, order)]

setSurgeFunctionEnvironment(M, g, order) ==
    IF ~lua_isfunction(M.stack, -1)
    THEN [res |-> FALSE, M |-> M]
    ELSE [res |-> TRUE, M |-> BuildEnvironment(M, g, order)]

(***************************************************************************)
(* The environment builder: any sequence of calls on an engine whose stack *)
(* holds at least one value.  The engine is an opened one in which scripts *)
(* may have removed math or surge, added to the math table and defined a   *)
(* global of their own.                                                    *)
(***************************************************************************)
\* values a host may have on the stack when it calls
HostValues == {Nil, Num(7), Str("text"), ScriptFn, IpairsFn, OsTbl}

\* math tables: the library's; an emptied one; one a script put more keys into
MathTables ==
    {MathTable,
     EmptyTable,
     [k \in {Str("sin"), Str("surge"), Str("os")} |->
        IF k.s = "sin" THEN MathFn ELSE Num(1)]}

InitWrap ==
    /\ stack \in UNION {[1..k -> HostValues] : k \in 1..MaxWrapStack}
    /\ \E m \in {MathTbl, Nil}, sg \in {SurgeTbl, Nil} :
          globals = [OpenedGlobals EXCEPT !["math"] = m, !["surge"] = sg,
                                          !["f"] = ScriptFn]
    /\ \E mt \in MathTables : heap = <<mt, OsTable, SurgeTable>>
    /\ fenv = NoEnv
    /\ cache = << >>
    /\ errorMessage = ""
    /\ pc = "idle"
    /\ ret = NoCall
    /\ args = NoCall
    /\ entry = NoCall
    /\ afterRun = OpenedGlobals
    /\ NoHostObjects

\* a call of setSurgeFunctionEnvironment(L)
Wrap ==
    /\ pc # "crashed"
    /\ Len(stack) >= 1
    /\ Len(heap) < MaxTables
    /\ \E order \in (IF globals["math"].t = "table"
                     THEN KeyOrders(heap[globals["math"].n]) ELSE {<< >>}) :
          \E r \in {setSurgeFunctionEnvironment(Engine(stack, heap, fenv), globals,
                                               order)} :
              /\ pc' = IF r.M.ub THEN "crashed" ELSE "returned"
              /\ stack' = r.M.stack
              /\ heap' = r.M.heap
              /\ fenv' = r.M.fenv
              /\ ret' = [op |-> "wrap", res |-> r.res]
              /\ args' = [op |-> "wrap"]
              /\ entry' = [op |-> "wrap", stack |-> stack, heap |-> heap,
                           fenv |-> fenv, globals |-> globals]
    /\ UNCHANGED <<globals, cache, errorMessage, afterRun, guard, cout, elements,
                   native>>

NextWrap == Wrap

SpecWrap == InitWrap /\ [][NextWrap]_vars

(***************************************************************************)
(* Properties of the environment builder.                                  *)
(***************************************************************************)
WrapSucceeded == ret.op = "wrap" /\ pc = "returned" /\ ret.res

WrapRefused == ret.op = "wrap" /\ pc = "returned" /\ ~ret.res

\* the environment table of the function on top of the stack
TopEnv == heap[fenv[At(stack, -1).n]]

\* the names setSurgeFunctionEnvironment puts into every environment
FixedNames == {"math", "surge", "ipairs", "error", "limit_range", "clamp",
               "fft_forward"}

\* C4: after a successful wrap the environment bound to the function holds only
\* the fixed names and the keys of the math table; every other global name is
\* absent from it.
C4_EnvironmentHoldsOnlyWhitelist ==
    WrapSucceeded =>
        LET mathKeys == DOMAIN heap[globals["math"].n]
        IN  /\ fenv[At(stack, -1).n] = Len(heap)
            /\ Len(heap) = Len(entry.heap) + 1
            /\ DOMAIN TopEnv \subseteq {Str(x) : x \in FixedNames} \cup mathKeys
            /\ \A name \in GlobalNames :
                  (name \notin FixedNames /\ Str(name) \notin mathKeys)
                      => TableGet(TopEnv, Str(name)) = Nil

C4_Witness ==
    /\ WrapSucceeded
    /\ globals["os"] = OsTbl /\ globals["f"] = ScriptFn
    /\ Str("os") \notin DOMAIN TopEnv
    /\ Str("f") \notin DOMAIN TopEnv
    /\ TableGet(TopEnv, Str("ipairs")) = IpairsFn
    /\ TableGet(TopEnv, Str("sin")) = MathFn

\* C5: a wrap of a value that is no function returns false and changes nothing:
\* the stack, the globals, the tables and the environments are those at entry,
\* and the same call made again returns false and changes nothing.
C5_RefusedWrapChangesNothing ==
    WrapRefused =>
        /\ ~lua_isfunction(entry.stack, -1)
        /\ stack = entry.stack
        /\ globals = entry.globals
        /\ heap = entry.heap
        /\ fenv = entry.fenv
        /\ LET again == setSurgeFunctionEnvironment(Engine(stack, heap, fenv),
                                                    globals, << >>)
           IN  /\ ~again.res
               /\ again.M = Engine(stack, heap, fenv)

C5_Witness ==
    /\ WrapRefused
    /\ At(stack, -1) = OsTbl
    /\ Len(stack) = 2

\* C6: a successful wrap leaves the function where it was: the stack at return
\* is the stack at entry, the function on top now bound to the new table.
C6_WrappedFunctionInPlace ==
    WrapSucceeded =>
        /\ lua_gettop(stack) = lua_gettop(entry.stack)
        /\ stack = entry.stack
        /\ lua_isfunction(stack, -1)
        /\ fenv[At(stack, -1).n] = Len(heap)
        /\ fenv[At(stack, -1).n] \notin 1..Len(entry.heap)

C6_Witness ==
    /\ WrapSucceeded
    /\ Len(stack) = 2
    /\ stack[1] = Str("text")
    /\ stack[2] = ScriptFn

\* C7 as stated: a successful wrap consumes the function, so the stack at
\* return is one shallower than at entry.
C7_FunctionConsumed ==
    WrapSucceeded => lua_gettop(stack) = lua_gettop(entry.stack) - 1

\* C7 as amended: a successful wrap removes nothing it did not push itself: the
\* depth at return is the depth at entry and the value on top is a function.
C7_DepthUnchanged ==
    WrapSucceeded =>
        /\ lua_gettop(stack) = lua_gettop(entry.stack)
        /\ At(stack, -1).t = "function"

C7_Witness ==
    /\ WrapSucceeded
    /\ lua_gettop(entry.stack) = 1
    /\ lua_gettop(stack) = 1

(***************************************************************************)
(* The transform cache (lines 32-67).  sst::cpputils::LRU is not part of   *)
(* the sources at hand: get is modelled from the cache's contract (a hit   *)
(* returns the entry and makes it the most recently used; a miss builds    *)
(* the element from the key, inserts it and evicts the least recently used *)
(* entry when the capacity is exceeded).                                   *)
(***************************************************************************)
\* the mutant of Capacity: a cache built for one entry more
CapacityOneMore == 5 + 1

\* new sst::cpputils::LRU<std::size_t, FFTElement>(5)   (line 66)
Capacity == 5

\* the mutant of FFTElement that allocates sz bytes instead of sz floats
FFTElementBytes(sz) == [size |-> sz, data |-> sz \div 4, setup |-> sz]

\* FFTElement::FFTElement(sz): data is the number of floats allocated, setup
\* the length the plan was made for   (lines 34-39)
FFTElement(sz) == [size |-> sz, data |-> sz, setup |-> sz]

\* the position of key in the cache, 0 when it holds no entry for it
CachePos(c, key) ==
    IF \E i \in DOMAIN c : c[i].key = key
    THEN CHOOSE i \in DOMAIN c : c[i].key = key
    ELSE 0

\* fftCache->get(key): the cache afterwards, most recently used first
LRUGet(c, key) ==
    LET pos == CachePos(c, key)
    IN  IF pos # 0
        THEN <<c[pos]>> \o SubSeq(c, 1, pos - 1) \o SubSeq(c, pos + 1, Len(c))
        ELSE LET c1 == <<[key |-> key, elem |-> FFTElement(key)]>> \o c
             IN  IF Len(c1) > Capacity THEN SubSeq(c1, 1, Capacity) ELSE c1

(***************************************************************************)
(* lua_FFTForward (lines 158-186).                                         *)
(***************************************************************************)
\* x & y on naturals
RECURSIVE BitAnd(_, _)
BitAnd(x, y) ==
    IF x = 0 \/ y = 0 THEN 0
    ELSE 2 * BitAnd(x \div 2, y \div 2) + (IF x % 2 = 1 /\ y % 2 = 1 THEN 1 ELSE 0)

\* the mutant of IsPowerOfTwo without the test for zero
IsPowerOfTwoAcceptsZero(x) == x = 0 \/ BitAnd(x, x - 1) = 0

\* x && (x & (x - 1)) == 0   (line 69)
IsPowerOfTwo(x) == x # 0 /\ BitAnd(x, x - 1) = 0

\* lua_objlen of a table: its border, the n with t[1..n] present and t[n+1] nil
RECURSIVE BorderFrom(_, _)
BorderFrom(keys, n) == IF Num(n + 1) \in keys THEN BorderFrom(keys, n + 1) ELSE n

Border(tbl, n) == LET keys == DOMAIN tbl IN BorderFrom(keys, n)

lua_objlen(M, idx) ==
    LET v == At(M.stack, idx)
    IN  CASE v.t = "table" -> Border(M.heap[v.n], 0)
          [] v.t = "string" -> Len(v.s)
          [] OTHER -> 0

\* lua_rawgeti(L, idx, i): pushes t[i] for the table t at idx
lua_rawgeti(M, idx, i) ==
    LET tv == At(M.stack, idx)
    IN  IF tv.t # "table"
        THEN Undefined(M)
        ELSE OnStack(M, Append(M.stack, TableGet(M.heap[tv.n], Num(i))))

\* lua_rawseti(L, idx, i): t[i] = v for the table t at idx and v on top; pops v
lua_rawseti(M, idx, i) ==
    LET tv == At(M.stack, idx)
        v == At(M.stack, -1)
    IN  IF tv.t # "table"
        THEN Undefined(M)
        ELSE [M EXCEPT !.heap[tv.n] = TableSet(@, Num(i), v),
                       !.stack = lua_pop(@, 1)]

\* luaL_checknumber(L, idx): the number at idx, or an error raised (no string
\* of the model is a numeral)
luaL_checknumber(M, idx) ==
    LET v == At(M.stack, idx)
    IN  IF v.t = "number"
        THEN [ok |-> TRUE, value |-> v.n, msg |-> ""]
        ELSE [ok |-> FALSE, value |-> 0,
              msg |-> "bad argument (number expected, got " \o v.t \o ")"]

\* pffft_transform(setup, input, output, work, PFFFT_FORWARD): the numeric
\* sequences of the model hold only zeros, whose transform is all zeros
pffft_transform(input) == [i \in 1..Len(input) |-> 0]

FFTOutcome(status, M, c, msg) ==
    [status |-> status, M |-> M, cache |-> c, msg |-> msg]

\* for (i = 0; i < n; i++) { rawgeti; checknumber; remove }   (lines 170-175)
RECURSIVE FFTReadLoop(_, _, _, _)
FFTReadLoop(M, n, i, input) ==
    IF i >= n
    THEN [status |-> "ok", M |-> M, input |-> input, msg |-> ""]
    ELSE LET M1 == lua_rawgeti(M, -1, i + 1)
             x == luaL_checknumber(M1, -2)
         IN  IF M1.ub THEN [status |-> "ub", M |-> M1, input |-> input, msg |-> ""]
             ELSE IF ~x.ok
             THEN [status |-> "raised", M |-> M1, input |-> input, msg |-> x.msg]
             ELSE FFTReadLoop(OnStack(M1, lua_remove(M1.stack, -2)), n, i + 1,
                              Append(input, x.value))

\* for (i = 0; i < n; i++) { pushnumber; rawseti(L, -1, i+1) }   (lines 179-183)
RECURSIVE FFTWriteLoop(_, _, _)
FFTWriteLoop(M, output, i) ==
    IF i >= Len(output) THEN M
    ELSE LET M1 == lua_rawseti(OnStack(M, lua_pushnumber(M.stack, output[i + 1])),
                               -1, i + 1)
         IN  IF M1.ub THEN M1 ELSE FFTWriteLoop(M1, output, i + 1)

\* lines 167-185: fetch the plan, read the input, transform, build the result
FFTTransform(M, c, n) ==
    LET c1 == LRUGet(c, n)
        rd == FFTReadLoop(M, n, 0, << >>)
    IN  IF rd.status # "ok"
        THEN FFTOutcome(rd.status, rd.M, c1, rd.msg)
        ELSE LET output == pffft_transform(rd.input)
                 M1 == lua_createtable(OnStack(rd.M, lua_remove(rd.M.stack, -1)))
                 M2 == FFTWriteLoop(M1, output, 0)
             IN  FFTOutcome(IF M2.ub THEN "ub" ELSE "returned", M2, c1, "")

lua_FFTForward(M, c) ==
    IF At(M.stack, -1).t # "table"
    THEN FFTOutcome("raised", M, c, "bad argument (table expected, got "
                                        \o At(M.stack, -1).t \o ")")
    ELSE LET n == lua_objlen(M, -1)
         IN  IF ~IsPowerOfTwo(n)
             THEN FFTOutcome("raised", M, c, "FFT size must be a power of two.")
             ELSE FFTTransform(M, c, n)

(***************************************************************************)
(* Scripts calling fft_forward: any sequence of calls, each entered with   *)
(* its one argument in a stack frame of its own.  The argument is a table  *)
(* the script has just built (the only table of the engine the call can    *)
(* reach), or a value that is no table.                                    *)
(***************************************************************************)
RECURSIVE Pow2(_)
Pow2(k) == IF k = 0 THEN 1 ELSE 2 * Pow2(k - 1)

\* lengths that are no power of two, and 2^0 .. 2^MaxLog
FFTLengths == {0, 3, 7} \cup {Pow2(k) : k \in 0..MaxLog}

ZeroSequence(n) == [k \in {Num(i) : i \in 1..n} |-> Num(0)]

\* a sequence of length 4 whose second entry is a string
MixedSequence ==
    [k \in {Num(i) : i \in 1..4} |-> IF k.n = 2 THEN Str("text") ELSE Num(0)]

\* what a script may pass: the value, and the tables of the engine at the call
FFTArguments ==
    {[value |-> Tbl(1), heap |-> <<ZeroSequence(n)>>] : n \in FFTLengths}
    \cup {[value |-> Tbl(1), heap |-> <<MixedSequence>>],
          [value |-> Num(7), heap |-> << >>]}

InitFFT ==
    /\ stack = << >>
    /\ globals = OpenedGlobals
    /\ heap = << >>
    /\ fenv = NoEnv
    /\ cache = << >>
    /\ errorMessage = ""
    /\ pc = "idle"
    /\ ret = NoCall
    /\ args = NoCall
    /\ entry = NoCall
    /\ afterRun = OpenedGlobals
    /\ NoHostObjects

\* a call fft_forward(argument) made by a script
FFTForward ==
    /\ pc # "crashed"
    /\ \E a \in FFTArguments :
          \E r \in {lua_FFTForward(Engine(<<a.value>>, a.heap, fenv), cache)} :
              /\ pc' = IF r.status = "ub" THEN "crashed" ELSE r.status
              /\ stack' = r.M.stack
              /\ heap' = r.M.heap
              /\ cache' = r.cache
              /\ ret' = [op |-> "fft", msg |-> r.msg]
              /\ args' = [op |-> "fft", argument |-> a.value]
              /\ entry' = [op |-> "fft", heap |-> a.heap, cache |-> cache]
    /\ UNCHANGED <<globals, fenv, errorMessage, afterRun, guard, cout, elements,
                   native>>

NextFFT == FFTForward

SpecFFT == InitFFT /\ [][NextFFT]_vars

(***************************************************************************)
(* Properties of fft_forward and of the transform cache.                   *)
(***************************************************************************)
\* the last call was fft_forward of a table
FFTOfTable == args.op = "fft" /\ args.argument.t = "table"

\* the table the last call was given, as it was at entry, and its length
FFTInput == entry.heap[args.argument.n]

FFTInputLen == Border(FFTInput, 0)

\* the table holds numbers at 1..n and nothing else
IsNumericSequence(tbl, n) ==
    /\ DOMAIN tbl = {Num(i) : i \in 1..n}
    /\ \A k \in DOMAIN tbl : tbl[k].t = "number"

\* C8: fft_forward of a sequence of N numbers, N a power of two, raises no error
\* and returns one value, a table made by the call that holds N numbers at 1..N
\* (zeros for a zero input); the input table is as it was.
C8_ForwardReturnsNewSequence ==
    (FFTOfTable /\ IsNumericSequence(FFTInput, FFTInputLen)
        /\ \E k \in 0..MaxLog : FFTInputLen = Pow2(k))
    =>  /\ pc = "returned"
        /\ At(stack, -1).t = "table"
        /\ At(stack, -1).n \notin 1..Len(entry.heap)
        /\ IsNumericSequence(heap[At(stack, -1).n], FFTInputLen)
        /\ (FFTInput = ZeroSequence(FFTInputLen)
              => heap[At(stack, -1).n] = ZeroSequence(FFTInputLen))
        /\ heap[args.argument.n] = FFTInput

\* C9: fft_forward of a sequence whose length is no positive power of two raises
\* a Lua error and leaves the cache, entries and order, as it was.
C9_BadLengthRaisesBeforeCache ==
    (FFTOfTable /\ ~(\E k \in 0..MaxLog : FFTInputLen = Pow2(k)))
    =>  /\ pc = "raised"
        /\ ret.msg = "FFT size must be a power of two."
        /\ cache = entry.cache

C9_Witness ==
    /\ FFTOfTable
    /\ FFTInputLen = 7
    /\ pc = "raised"
    /\ Len(cache) >= 2

\* C10: the cache never holds more than 5 entries nor two entries for one
\* size, and the buffer and the plan of every entry have the size of its key.
C10_CacheBoundedAndSized ==
    /\ Len(cache) <= 5
    /\ \A i, j \in DOMAIN cache : cache[i].key = cache[j].key => i = j
    /\ \A i \in DOMAIN cache :
          /\ cache[i].elem.size = cache[i].key
          /\ cache[i].elem.data = cache[i].key
          /\ cache[i].elem.setup = cache[i].key

\* the cache was full and the last call asked for a size it did not hold
C10_Witness ==
    /\ FFTOfTable
    /\ Len(entry.cache) = 5
    /\ \A i \in DOMAIN entry.cache : entry.cache[i].key # FFTInputLen
    /\ Len(cache) = 5
    /\ cache[1].key = FFTInputLen

\* the last call reached fftCache->get(n) (line 167): its argument was a table
\* whose length is a power of two
FFTReachedCache == FFTOfTable /\ IsPowerOfTwo(FFTInputLen)

\* the sequence q without its i-th entry
WithoutEntry(q, i) == SubSeq(q, 1, i - 1) \o SubSeq(q, i + 1, Len(q))

\* C11: a get that hits makes the entry it found the most recently used one,
\* builds nothing and keeps the other entries in their order; a get that misses
\* puts a new element for the size in front and, when the cache held 5 entries,
\* drops exactly the least recently used one.  So a size that was evicted is
\* built anew when it is asked for again, and a size asked for twice in a row is
\* served by the one entry.
C11_CacheRecency ==
    FFTReachedCache =>
        LET old == entry.cache
            n == FFTInputLen
            hits == {i \in DOMAIN old : old[i].key = n}
        IN  /\ Cardinality(hits) <= 1
            /\ \A i \in hits :
                  /\ cache[1] = old[i]
                  /\ Len(cache) = Len(old)
                  /\ SubSeq(cache, 2, Len(cache)) = WithoutEntry(old, i)
            /\ hits = {} =>
                  /\ cache[1] = [key |-> n, elem |-> FFTElement(n)]
                  /\ SubSeq(cache, 2, Len(cache))
                        = IF Len(old) = 5 THEN SubSeq(old, 1, 4) ELSE old
            /\ LRUGet(cache, n) = cache

\* the cache was full, the size asked for was not in it, and the entry that was
\* the least recently used is gone
C11_Witness ==
    /\ FFTReachedCache
    /\ Len(entry.cache) = 5
    /\ \A i \in DOMAIN entry.cache : entry.cache[i].key # FFTInputLen
    /\ cache[1].key = FFTInputLen
    /\ \A i \in DOMAIN cache : cache[i].key # entry.cache[5].key
    /\ cache[2] = entry.cache[1]

(***************************************************************************)
(* The stack guard SGLD.  The destructor is lines 282-295; the constructor *)
(* is declared in LuaSupport.h, which is not part of the sources at hand,  *)
(* and is modelled from its contract: it records the label, the engine and *)
(* the depth of the engine's stack.                                        *)
(***************************************************************************)
\* SGLD::SGLD(label, L)
SGLD(label, hasL, s) ==
    [L |-> hasL, label |-> label, top |-> IF hasL THEN lua_gettop(s) ELSE 0]

\* the mutant of SGLDExit that reports only a stack that grew
SGLDExitOnlyGrowth(g, s, out) ==
    IF g.L /\ lua_gettop(s) > g.top
    THEN Append(out, "Guarded stack leak: [" \o g.label \o "] exit="
                        \o NatToStr(lua_gettop(s)) \o " enter=" \o NatToStr(g.top))
    ELSE out

\* SGLD::~SGLD(): std::cout afterwards   (lines 282-295)
SGLDExit(g, s, out) ==
    IF g.L /\ lua_gettop(s) # g.top
    THEN Append(out, "Guarded stack leak: [" \o g.label \o "] exit="
                        \o NatToStr(lua_gettop(s)) \o " enter=" \o NatToStr(g.top))
    ELSE out

(***************************************************************************)
(* A host that opens guarded scopes one after the other and pushes and     *)
(* pops values inside them.  A guard built with a null engine guards       *)
(* nothing; the host may still use the engine it has.                      *)
(***************************************************************************)
\* the labels the host gives its guards
GuardLabels == {"loadPrologue", "eval"}

InitGuard ==
    /\ stack \in {<< >>, <<Str("host")>>}
    /\ globals = OpenedGlobals
    /\ heap = OpenedHeap
    /\ fenv = NoEnv
    /\ cache = << >>
    /\ errorMessage = ""
    /\ pc = "idle"
    /\ ret = NoCall
    /\ args = NoCall
    /\ entry = NoCall
    /\ afterRun = OpenedGlobals
    /\ NoHostObjects

\* auto guard = SGLD(label, L);
GuardEnter ==
    /\ pc = "idle"
    /\ Len(cout) < MaxLines
    /\ \E label \in GuardLabels, hasL \in BOOLEAN :
          /\ guard' = SGLD(label, hasL, stack)
          /\ args' = [op |-> "guard", label |-> label, L |-> hasL, stack |-> stack]
    /\ pc' = "guarded"
    /\ ret' = [op |-> "enter"]
    /\ entry' = [op |-> "enter", stack |-> stack, cout |-> cout]
    /\ UNCHANGED <<stack, globals, heap, fenv, cache, errorMessage, afterRun, cout,
                   elements, native>>

\* a push made inside the scope
GuardedPush ==
    /\ pc = "guarded"
    /\ Len(stack) < MaxStack
    /\ stack' = lua_pushnumber(stack, 7)
    /\ ret' = [op |-> "push"]
    /\ UNCHANGED <<globals, heap, fenv, cache, errorMessage, pc, args, entry,
                   afterRun, guard, cout, elements, native>>

\* a pop made inside the scope
GuardedPop ==
    /\ pc = "guarded"
    /\ Len(stack) > 0
    /\ stack' = lua_pop(stack, 1)
    /\ ret' = [op |-> "pop"]
    /\ UNCHANGED <<globals, heap, fenv, cache, errorMessage, pc, args, entry,
                   afterRun, guard, cout, elements, native>>

\* the end of the scope: the destructor runs
GuardExit ==
    /\ pc = "guarded"
    /\ cout' = SGLDExit(guard, stack, cout)
    /\ guard' = NoGuard
    /\ pc' = "idle"
    /\ ret' = [op |-> "exit"]
    /\ entry' = [op |-> "exit", stack |-> stack, cout |-> cout]
    /\ UNCHANGED <<stack, globals, heap, fenv, cache, errorMessage, args, afterRun,
                   elements, native>>

NextGuard == GuardEnter \/ GuardedPush \/ GuardedPop \/ GuardExit

SpecGuard == InitGuard /\ [][NextGuard]_vars

(***************************************************************************)
(* Properties of the stack guard.                                          *)
(***************************************************************************)
\* sub occurs in str
Contains(str, sub) ==
    \E i \in 1..(Len(str) - Len(sub) + 1) : SubSeq(str, i, i + Len(sub) - 1) = sub

\* C12: when a guarded scope ends, std::cout has gained exactly one line, which
\* names the label, the depth at exit and the depth at entry, if the guard holds
\* an engine and the depth at exit differs from the depth the scope was entered
\* with, and has gained nothing otherwise; neither building the guard nor
\* destroying it changes the stack.
C12_GuardReportsImbalance ==
    /\ ret.op = "enter" => (stack = entry.stack /\ cout = entry.cout)
    /\ ret.op = "exit" =>
          /\ stack = entry.stack
          /\ IF args.L /\ Len(entry.stack) # Len(args.stack)
             THEN /\ Len(cout) = Len(entry.cout) + 1
                  /\ SubSeq(cout, 1, Len(entry.cout)) = entry.cout
                  /\ Contains(cout[Len(cout)], "[" \o args.label \o "]")
                  /\ Contains(cout[Len(cout)],
                              "exit=" \o NatToStr(Len(entry.stack)) \o " ")
                  /\ Contains(cout[Len(cout)],
                              "enter=" \o NatToStr(Len(args.stack)))
             ELSE cout = entry.cout

\* a scope entered at depth 1 and left at depth 0 was reported
C12_Witness ==
    /\ ret.op = "exit"
    /\ args.L
    /\ Len(args.stack) = 1
    /\ Len(stack) = 0
    /\ cout = <<"Guarded stack leak: [eval] exit=0 enter=1">>

(***************************************************************************)
(* lua_limitRange (lines 143-153), registered as limit_range and as clamp  *)
(* (lines 226-232).  limit_range itself is defined in basic_dsp.h, which   *)
(* is not part of the sources at hand, and is modelled from its contract.  *)
(***************************************************************************)
Min(a, b) == IF a < b THEN a ELSE b

Max(a, b) == IF a > b THEN a ELSE b

\* limit_range(x, low, high) of basic_dsp.h: x clamped into [low, high]
limit_range(x, low, high) == Max(Min(x, high), low)

\* what a C function leaves: how it ended, the engine, the number of results
PrimitiveOutcome(status, M, nresults, msg) ==
    [status |-> status, M |-> M, nresults |-> nresults, msg |-> msg]

\* the mutant of lua_limitRange that takes low from the top and high from below
lua_limitRangeSwapped(M) ==
    IF Len(M.stack) < 3 THEN PrimitiveOutcome("ub", Undefined(M), 0, "")
    ELSE LET x == luaL_checknumber(M, -3)
             low == luaL_checknumber(M, -1)
             high == luaL_checknumber(M, -2)
         IN  IF ~x.ok THEN PrimitiveOutcome("raised", M, 0, x.msg)
             ELSE IF ~low.ok THEN PrimitiveOutcome("raised", M, 0, low.msg)
             ELSE IF ~high.ok THEN PrimitiveOutcome("raised", M, 0, high.msg)
             ELSE PrimitiveOutcome("returned",
                      OnStack(M, lua_pushnumber(M.stack,
                                     limit_range(x.value, low.value, high.value))),
                      1, "")

\* lines 143-153; an index below the frame of the call is outside the API
lua_limitRange(M) ==
    IF Len(M.stack) < 3 THEN PrimitiveOutcome("ub", Undefined(M), 0, "")
    ELSE LET x == luaL_checknumber(M, -3)
             low == luaL_checknumber(M, -2)
             high == luaL_checknumber(M, -1)
         IN  IF ~x.ok THEN PrimitiveOutcome("raised", M, 0, x.msg)
             ELSE IF ~low.ok THEN PrimitiveOutcome("raised", M, 0, low.msg)
             ELSE IF ~high.ok THEN PrimitiveOutcome("raised", M, 0, high.msg)
             ELSE PrimitiveOutcome("returned",
                      OnStack(M, lua_pushnumber(M.stack,
                                     limit_range(x.value, low.value, high.value))),
                      1, "")

(***************************************************************************)
(* A wrapped script calling limit_range and clamp: the engine is the one   *)
(* setSurgeFunctionEnvironment left, the script resolves the name in its   *)
(* environment and the callee runs in a frame that holds the arguments.    *)
(***************************************************************************)
LimitNumbers == (0 - MaxNumber)..MaxNumber

LimitValues == {Num(k) : k \in LimitNumbers} \cup {Str("text")}

\* the argument lists: three values, four numbers, two numbers
LimitArguments ==
    [1..3 -> LimitValues]
    \cup {<<Num(0)>> \o a : a \in [1..3 -> {Num(k) : k \in LimitNumbers}]}
    \cup [1..2 -> {Num(k) : k \in LimitNumbers}]

\* the value the wrapped script finds under a name
Resolve(h, e, name) == TableGet(h[e[ScriptFn.n]], Str(name))

InitLimit ==
    /\ \E order \in KeyOrders(MathTable) :
          \E r \in {setSurgeFunctionEnvironment(
                        Engine(<<ScriptFn>>, OpenedHeap, NoEnv), OpenedGlobals, order)} :
              /\ heap = r.M.heap
              /\ fenv = r.M.fenv
    /\ stack = << >>
    /\ globals = OpenedGlobals
    /\ cache = << >>
    /\ errorMessage = ""
    /\ pc = "idle"
    /\ ret = NoCall
    /\ args = NoCall
    /\ entry = NoCall
    /\ afterRun = OpenedGlobals
    /\ NoHostObjects

\* the script evaluates name(arguments) for name limit_range or clamp
CallLimit ==
    /\ pc # "crashed"
    /\ \E name \in {"limit_range", "clamp"}, a \in LimitArguments :
          /\ Resolve(heap, fenv, name) = LimitRangeFn
          /\ \E r \in {lua_limitRange(Engine(a, heap, fenv))} :
                /\ pc' = IF r.status = "ub" THEN "crashed" ELSE r.status
                /\ stack' = r.M.stack
                /\ heap' = r.M.heap
                /\ fenv' = r.M.fenv
                /\ ret' = [op |-> "limit", nresults |-> r.nresults, msg |-> r.msg]
                /\ args' = [op |-> "limit", name |-> name, arguments |-> a]
                /\ entry' = [op |-> "limit", heap |-> heap, fenv |-> fenv]
    /\ UNCHANGED <<globals, cache, errorMessage, afterRun, guard, cout, elements,
                   native>>

NextLimit == CallLimit

SpecLimit == InitLimit /\ [][NextLimit]_vars

(***************************************************************************)
(* Properties of limit_range and clamp.                                    *)
(***************************************************************************)
\* the last call passed numbers x, low, high in its last three arguments, and
\* [low, high] is an interval
LimitOfInterval ==
    /\ args.op = "limit"
    /\ Len(args.arguments) >= 3
    /\ \A i \in 1..3 : At(args.arguments, 0 - i).t = "number"
    /\ At(args.arguments, -2).n <= At(args.arguments, -1).n

\* C13: limit_range and clamp are the one primitive; called with numbers x,
\* low <= high it returns exactly one value r, low <= r <= high, and r = x when
\* low <= x <= high; it reads the last three slots of its frame, leaves the
\* arguments where they are and changes no table, environment, global or cache.
C13_LimitRangeClamps ==
    /\ Resolve(heap, fenv, "clamp") = Resolve(heap, fenv, "limit_range")
    /\ Resolve(heap, fenv, "clamp") = LimitRangeFn
    /\ LimitOfInterval =>
          LET x == At(args.arguments, -3).n
              low == At(args.arguments, -2).n
              high == At(args.arguments, -1).n
              r == At(stack, -1)
          IN  /\ pc = "returned"
              /\ ret.nresults = 1
              /\ stack = Append(args.arguments, r)
              /\ r.t = "number"
              /\ low <= r.n /\ r.n <= high
              /\ (low <= x /\ x <= high) => r.n = x
              /\ heap = entry.heap
              /\ fenv = entry.fenv
              /\ globals = OpenedGlobals
              /\ cache = << >>

\* clamp(1, -1, 0) returned 0
C13_Witness ==
    /\ args.op = "limit"
    /\ args.name = "clamp"
    /\ args.arguments = <<Num(1), Num(-1), Num(0)>>
    /\ pc = "returned"
    /\ At(stack, -1) = Num(0)

(***************************************************************************)
(* loadSurgePrelude (lines 266-278).  The bundled script is modelled like  *)
(* every other script text, with the value its body returns.               *)
(***************************************************************************)
\* lua_setglobal(L, name): globals[name] = the value on top; pops it
lua_setglobal(s, g, name) ==
    [stack |-> lua_pop(s, 1), globals |-> [g EXCEPT ![name] = At(s, -1)]]

\* the mutant of lua_pcall1 that leaves a value it cannot call where it is
lua_pcall1KeepsCallee(s, g, src) ==
    IF ~lua_isfunction(s, -1)
    THEN [status |-> "LUA_ERRRUN", globals |-> g,
          stack |-> Append(s, Str("attempt to call a " \o At(s, -1).t \o " value"))]
    ELSE IF src.run = "ok"
    THEN [status |-> "LUA_OK", globals |-> RunChunk(g, src),
          stack |-> Append(lua_pop(s, 1), src.result)]
    ELSE [status |-> "LUA_ERRRUN", globals |-> RunChunk(g, src),
          stack |-> Append(lua_pop(s, 1), src.err)]

\* lua_pcall(L, 0, 1, 0) (line 274): pops the value on top and calls it; pushes
\* its first result (nil when it returns none), or the error value
lua_pcall1(s, g, src) ==
    IF ~lua_isfunction(s, -1)
    THEN [status |-> "LUA_ERRRUN", globals |-> g,
          stack |-> Append(lua_pop(s, 1),
                           Str("attempt to call a " \o At(s, -1).t \o " value"))]
    ELSE IF src.run = "ok"
    THEN [status |-> "LUA_OK", globals |-> RunChunk(g, src),
          stack |-> Append(lua_pop(s, 1), src.result)]
    ELSE [status |-> "LUA_ERRRUN", globals |-> RunChunk(g, src),
          stack |-> Append(lua_pop(s, 1), src.err)]

\* the mutant of loadSurgePrelude that reports whether the script loaded
loadSurgePreludeReportsLoad(s, g, src, out) ==
    LET sgld == SGLD("loadPrologue", TRUE, s)
        ld == luaL_loadbuffer(s, src)
        pr == lua_pcall1(ld.stack, g, src)
        sg == lua_setglobal(pr.stack, pr.globals, "surge")
    IN  [res |-> ld.status = "LUA_OK", stack |-> sg.stack, globals |-> sg.globals,
         cout |-> SGLDExit(sgld, sg.stack, out)]

\* lines 266-278: guard, load, call, bind, return true; `out` is std::cout
loadSurgePrelude(s, g, src, out) ==
    LET sgld == SGLD("loadPrologue", TRUE, s)
        ld == luaL_loadbuffer(s, src)
        pr == lua_pcall1(ld.stack, g, src)
        sg == lua_setglobal(pr.stack, pr.globals, "surge")
    IN  [res |-> TRUE, stack |-> sg.stack, globals |-> sg.globals,
         cout |-> SGLDExit(sgld, sg.stack, out)]

\* values the body of a prelude may return: the library table, nothing, a number
PreludeResults == {SurgeTbl, Nil, Num(7)}

\* globals a prelude body may assign before it returns or raises
PreludeWrites == {NoWrites, [k \in {"surge"} |-> Str("text")]}

\* preludes: the bundled one (it compiles and returns the library table) and
\* the ones a changed or damaged script would be
PreludeSources ==
    {[load |-> l, run |-> "ok", writes |-> NoWrites, err |-> Nil, result |-> Nil] :
        l \in {"syntax", "mem"}}
    \cup {[load |-> "ok", run |-> "ok", writes |-> w, err |-> Nil, result |-> v] :
            w \in PreludeWrites, v \in PreludeResults}
    \cup {[load |-> "ok", run |-> "error", writes |-> w, err |-> e, result |-> Nil] :
            w \in PreludeWrites, e \in ErrorValues}

\* a new engine, before any prelude was loaded; the host may hold values on
\* the stack
InitPrelude ==
    /\ stack \in SeqsUpTo(HostValues, MaxWrapStack)
    /\ globals = [OpenedGlobals EXCEPT !["surge"] = Nil]
    /\ heap = OpenedHeap
    /\ fenv = NoEnv
    /\ cache = << >>
    /\ errorMessage = ""
    /\ pc = "idle"
    /\ ret = NoCall
    /\ args = NoCall
    /\ entry = NoCall
    /\ afterRun = OpenedGlobals
    /\ NoHostObjects

\* a call of loadSurgePrelude(s)
LoadPrelude ==
    /\ \E src \in PreludeSources :
          \E r \in {loadSurgePrelude(stack, globals, src, cout)} :
              /\ pc' = "returned"
              /\ stack' = r.stack
              /\ globals' = r.globals
              /\ cout' = r.cout
              /\ ret' = [op |-> "prelude", res |-> r.res]
              /\ args' = [op |-> "prelude", load |-> src.load, run |-> src.run,
                          result |-> src.result, err |-> src.err]
              /\ entry' = [op |-> "prelude", stack |-> stack, cout |-> cout]
    /\ UNCHANGED <<heap, fenv, cache, errorMessage, afterRun, guard, elements,
                   native>>

NextPrelude == LoadPrelude

SpecPrelude == InitPrelude /\ [][NextPrelude]_vars

(***************************************************************************)
(* Properties of loadSurgePrelude.                                         *)
(***************************************************************************)
\* C14: loadSurgePrelude returns true whether or not the script compiles and
\* runs; when it compiles and runs, the global surge is afterwards the first
\* value its body returned.
C14_PreludeAlwaysTrue ==
    ret.op = "prelude" =>
        /\ pc = "returned"
        /\ ret.res = TRUE
        /\ (args.load = "ok" /\ args.run = "ok") => globals["surge"] = args.result

\* a prelude that did not compile was reported as loaded
C14_Witness ==
    /\ ret.op = "prelude"
    /\ args.load = "syntax"
    /\ ret.res = TRUE
    /\ pc = "returned"

\* C20: on every path loadSurgePrelude returns with the stack it was entered
\* with, so its guard prints nothing; when the script does not compile or its
\* body raises, the global surge is assigned all the same, to the error value
\* the engine pushed.
C20_PreludeKeepsDepth ==
    ret.op = "prelude" =>
        /\ lua_gettop(stack) = lua_gettop(entry.stack)
        /\ stack = entry.stack
        /\ cout = entry.cout
        /\ args.load # "ok" => globals["surge"] = Str("attempt to call a string value")
        /\ (args.load = "ok" /\ args.run = "error") => globals["surge"] = args.err

\* the body raised a string after the host had two values on the stack
C20_Witness ==
    /\ ret.op = "prelude"
    /\ args.load = "ok" /\ args.run = "error"
    /\ lua_gettop(entry.stack) = 2
    /\ lua_gettop(stack) = 2
    /\ globals["surge"] = Str("boom")
    /\ cout = << >>

(***************************************************************************)
(* The primitives a wrapped function sees.  lua_FFTInverse (lines 189-193) *)
(* is defined in the source, but no line of setSurgeFunctionEnvironment    *)
(* puts it into the table: lines 226-236 register limit_range, clamp and   *)
(* fft_forward only.                                                       *)
(***************************************************************************)
\* C15: after a successful wrap the environment of the function binds
\* fft_inverse to a native function, as it binds limit_range, clamp and
\* fft_forward.
C15_InverseRegistered ==
    WrapSucceeded =>
        /\ TableGet(TopEnv, Str("limit_range")) = LimitRangeFn
        /\ TableGet(TopEnv, Str("clamp")) = LimitRangeFn
        /\ TableGet(TopEnv, Str("fft_forward")) = FFTForwardFn
        /\ TableGet(TopEnv, Str("fft_inverse")).t = "function"

(***************************************************************************)
(* The lifetime of FFTElement objects (lines 33-58).  An object lives in a *)
(* storage slot; its data and setup members are pointers into `native`,    *)
(* the allocations made by pffft_aligned_malloc and pffft_new_setup, each  *)
(* with the number of times it was released.                               *)
(***************************************************************************)
\* explicit FFTElement(std::size_t sz)   (lines 34-39)
FFTElementCtor(nat, sz) ==
    [elem |-> [alive |-> TRUE, size |-> sz, data |-> Len(nat) + 1,
               setup |-> Len(nat) + 2],
     native |-> nat \o <<[kind |-> "buffer", size |-> sz, released |-> 0],
                         [kind |-> "plan", size |-> sz, released |-> 0]>>]

\* ~FFTElement(): pffft_aligned_free(data); pffft_destroy_setup(setup)
\* (lines 41-45)
FFTElementDtor(nat, e) ==
    [p \in DOMAIN nat |->
        IF p = e.data \/ p = e.setup
        THEN [nat[p] EXCEPT !.released = @ + 1]
        ELSE nat[p]]

\* FFTElement(FFTElement &&) = default and operator=(FFTElement &&) = default
\* (lines 47-48): the members of the target are those of the source, and the
\* source keeps its own
FFTElementMove(src) == [alive |-> TRUE, size |-> src.size, data |-> src.data,
                        setup |-> src.setup]

\* the destructor releases a pointer that was released before
ReleasesTwice(nat, e) == nat[e.data].released > 0 \/ nat[e.setup].released > 0

\* what a second release of a pointer does: the allocator aborts the process,
\* or the process goes on with a corrupted heap, and nothing more is known of it
DoubleFreeOutcomes == {"crashed", "corrupted"}

ElementSlots == 1..MaxElements

ElementSizes == {4, 8}

InitElement ==
    /\ stack = << >>
    /\ globals = OpenedGlobals
    /\ heap = OpenedHeap
    /\ fenv = NoEnv
    /\ cache = << >>
    /\ errorMessage = ""
    /\ pc = "idle"
    /\ ret = NoCall
    /\ args = NoCall
    /\ entry = NoCall
    /\ afterRun = OpenedGlobals
    /\ guard = NoGuard
    /\ cout = << >>
    /\ elements = [i \in ElementSlots |-> NoElement]
    /\ native = << >>

\* FFTElement e(sz);
Construct ==
    /\ pc = "idle"
    /\ Len(native) < 2 * MaxConstructions
    /\ \E i \in ElementSlots, sz \in ElementSizes :
          /\ ~elements[i].alive
          /\ \E r \in {FFTElementCtor(native, sz)} :
                /\ elements' = [elements EXCEPT ![i] = r.elem]
                /\ native' = r.native
    /\ ret' = [op |-> "construct"]
    /\ UNCHANGED <<stack, globals, heap, fenv, cache, errorMessage, pc, args, entry,
                   afterRun, guard, cout>>

\* FFTElement e(std::move(other));
MoveConstruct ==
    /\ pc = "idle"
    /\ \E i, j \in ElementSlots :
          /\ ~elements[i].alive
          /\ elements[j].alive
          /\ elements' = [elements EXCEPT ![i] = FFTElementMove(elements[j])]
    /\ ret' = [op |-> "move"]
    /\ UNCHANGED <<stack, globals, heap, fenv, cache, errorMessage, pc, args, entry,
                   afterRun, guard, cout, native>>

\* e = std::move(other);
MoveAssign ==
    /\ pc = "idle"
    /\ \E i, j \in ElementSlots :
          /\ i # j
          /\ elements[i].alive
          /\ elements[j].alive
          /\ elements' = [elements EXCEPT ![i] = FFTElementMove(elements[j])]
    /\ ret' = [op |-> "assign"]
    /\ UNCHANGED <<stack, globals, heap, fenv, cache, errorMessage, pc, args, entry,
                   afterRun, guard, cout, native>>

\* the end of the lifetime of e (scope exit, eviction): the destructor runs
Destroy ==
    /\ pc = "idle"
    /\ \E i \in ElementSlots :
          /\ elements[i].alive
          /\ native' = FFTElementDtor(native, elements[i])
          /\ elements' = [elements EXCEPT ![i] = NoElement]
          /\ IF ReleasesTwice(native, elements[i])
             THEN pc' \in DoubleFreeOutcomes
             ELSE pc' = pc
    /\ ret' = [op |-> "destroy"]
    /\ UNCHANGED <<stack, globals, heap, fenv, cache, errorMessage, args, entry,
                   afterRun, guard, cout>>

\* pffft_transform(e.setup, input, output, e.data, PFFFT_FORWARD)   (line 176)
Transform ==
    /\ pc = "idle"
    /\ \E i \in ElementSlots :
          /\ elements[i].alive
          /\ ret' = [op |-> "transform",
                     released |-> ReleasesTwice(native, elements[i])]
    /\ UNCHANGED <<stack, globals, heap, fenv, cache, errorMessage, pc, args, entry,
                   afterRun, guard, cout, elements, native>>

NextElement == Construct \/ MoveConstruct \/ MoveAssign \/ Destroy \/ Transform

SpecElement == InitElement /\ [][NextElement]_vars

(***************************************************************************)
(* Properties of the lifetime of FFTElement.                               *)
(***************************************************************************)
\* C16: buffers and plans are allocated in pairs of one size, the two of a pair
\* are released together, no allocation is released twice, and no transform
\* uses a buffer or plan that was released.
C16_ReleasedExactlyOnce ==
    /\ \A p \in DOMAIN native :
          p % 2 = 1 =>
              /\ native[p].kind = "buffer" /\ native[p + 1].kind = "plan"
              /\ native[p].size = native[p + 1].size
              /\ native[p].released = native[p + 1].released
    /\ \A p \in DOMAIN native : native[p].released <= 1
    /\ ret.op = "transform" => ~ret.released

(***************************************************************************)
(* The stack a load returns with.                                          *)
(***************************************************************************)
\* C17: whenever parseStringDefiningMultipleFunctions returns, after a syntax
\* failure, an evaluation failure or a success, the stack is the stack at entry
\* with one slot per requested name on top of it; every such slot holds a
\* function or nil; after a success the slot of a name holds the function the
\* global is bound to, or nil when the global is no function, and the slot of
\* the first requested name is on top.
C17_ReturnDepth ==
    (args.op = "parse" /\ pc = "returned") =>
        LET n == Len(args.functions)
        IN  /\ lua_gettop(stack) = lua_gettop(entry.stack) + n
            /\ SubSeq(stack, 1, Len(entry.stack)) = entry.stack
            /\ \A i \in 1..n : At(stack, 0 - i).t \in {"function", "nil"}
            /\ ParseSucceeded =>
                  \A i \in 1..n :
                      At(stack, 0 - i) =
                          IF afterRun[args.functions[i]].t = "function"
                          THEN afterRun[args.functions[i]]
                          ELSE Nil

\* a load asked for f and g on a stack that held a value: f is a function and
\* on top, g is a string and its slot below is nil
C17_Witness ==
    /\ ParseSucceeded /\ pc = "returned"
    /\ args.functions = <<"f", "g">>
    /\ entry.stack = <<Str("host")>>
    /\ globals["g"].t = "string"
    /\ stack = <<Str("host"), Nil, ScriptFn>>

(***************************************************************************)
(* Loads made one after the other on one engine, by a host that keeps      *)
(* nothing on the stack; the history keeps what each chunk assigned.       *)
(***************************************************************************)
InitLoads == InitParse /\ stack = << >>

Load == ParseCall(TRUE)

NextLoads == Load

SpecLoads == InitLoads /\ [][NextLoads]_vars

\* C19 as stated: a load counts a requested name whose global is a function
\* after the chunk ran, also when the chunk did not assign it, and a load that
\* fails, by a syntax error or by an error raised in the body, leaves every
\* requested global that was bound before the load bound to the value it had.
C19_FailedLoadKeepsGlobals ==
    [][args'.op = "parse" =>
          \A i \in DOMAIN args'.functions :
             LET name == args'.functions[i]
             IN  /\ (ParseSucceeded' /\ name \notin args'.writes
                        /\ globals[name].t = "function")
                       => (Slot(i)' = globals[name] /\ ret'.res >= 1)
                 /\ (ParseFailed' /\ globals[name] # Nil)
                       => globals'[name] = globals[name]]_vars

\* C19 as amended: the same count; a load that fails by a syntax error leaves
\* every global as it was, and a load whose body raises leaves a requested
\* global as it was when the body had not assigned it and bound to what the
\* body assigned otherwise.
C19_LoadsAccumulate ==
    [][args'.op = "parse" =>
          /\ args'.load # "ok" => globals' = globals
          /\ ParseSucceeded' =>
                ret'.res = Cardinality({i \in DOMAIN args'.functions :
                                           globals'[args'.functions[i]].t = "function"})
          /\ \A i \in DOMAIN args'.functions :
                LET name == args'.functions[i]
                IN  /\ (ParseSucceeded' /\ name \notin args'.writes
                           /\ globals[name].t = "function")
                          => (Slot(i)' = globals[name] /\ ret'.res >= 1)
                    /\ (args'.load = "ok" /\ name \notin args'.writes)
                          => globals'[name] = globals[name]
                    /\ (args'.load = "ok" /\ name \in args'.writes)
                          => globals'[name] = afterRun'[name]]_vars

\* a load whose chunk did not assign f returned f, which an earlier load had
\* defined, and counted it
C19_Witness ==
    /\ ParseSucceeded /\ pc = "returned"
    /\ args.functions = <<"f">>
    /\ args.writes = {}
    /\ globals["f"] = ScriptFn
    /\ At(stack, -1) = ScriptFn
    /\ ret.res = 1

(***************************************************************************)
(* setSurgeFunctionEnvironment step by step: the call up to the loop       *)
(* (lines 198-241), one iteration of the loop (lines 243-252), the end of  *)
(* the loop with the pop that follows (lines 243, 255) and the binding     *)
(* (lines 258-263).  pc is "loop" where lua_next is about to be called and *)
(* "flattened" after the pop of line 255.                                  *)
(***************************************************************************)
\* the call is entered and runs up to the loop
WrapBegin ==
    /\ pc \in {"idle", "returned"}
    /\ Len(stack) >= 1
    /\ Len(heap) < MaxTables
    /\ IF ~lua_isfunction(stack, -1)
       THEN /\ pc' = "returned"
            /\ ret' = [op |-> "wrap", res |-> FALSE]
            /\ args' = [op |-> "wrap", order |-> << >>]
            /\ UNCHANGED <<stack, heap>>
       ELSE /\ \E order \in (IF globals["math"].t = "table"
                             THEN KeyOrders(heap[globals["math"].n]) ELSE {<< >>}) :
                  args' = [op |-> "wrap", order |-> order]
            /\ \E M \in {FlattenStart(PopulateEnvironment(Engine(stack, heap, fenv),
                                                          globals), globals)} :
                  /\ stack' = M.stack
                  /\ heap' = M.heap
            /\ pc' = "loop"
            /\ ret' = [op |-> "wrap", res |-> TRUE]
    /\ entry' = [op |-> "wrap", stack |-> stack, heap |-> heap, fenv |-> fenv,
                 globals |-> globals]
    /\ UNCHANGED <<globals, fenv, cache, errorMessage, afterRun, guard, cout,
                   elements, native>>

\* lua_next found a pair: the body of the loop copies it
FlattenStep ==
    /\ pc = "loop"
    /\ \E nx \in {lua_next(Engine(stack, heap, fenv), -2, args.order)} :
          /\ nx.more
          /\ \E M \in {FlattenPair(nx.M)} :
                /\ stack' = M.stack
                /\ heap' = M.heap
                /\ pc' = IF M.ub THEN "crashed" ELSE "loop"
    /\ UNCHANGED <<globals, fenv, cache, errorMessage, ret, args, entry, afterRun,
                   guard, cout, elements, native>>

\* lua_next found no pair: the loop ends and math is popped
FlattenExit ==
    /\ pc = "loop"
    /\ \E nx \in {lua_next(Engine(stack, heap, fenv), -2, args.order)} :
          /\ ~nx.more
          /\ stack' = IF nx.M.ub THEN nx.M.stack ELSE lua_pop(nx.M.stack, 1)
          /\ pc' = IF nx.M.ub THEN "crashed" ELSE "flattened"
    /\ UNCHANGED <<globals, heap, fenv, cache, errorMessage, ret, args, entry,
                   afterRun, guard, cout, elements, native>>

\* the table becomes the environment of the function; return true
WrapEnd ==
    /\ pc = "flattened"
    /\ \E M \in {BindEnvironment(Engine(stack, heap, fenv))} :
          /\ stack' = M.stack
          /\ fenv' = M.fenv
          /\ pc' = IF M.ub THEN "crashed" ELSE "returned"
    /\ UNCHANGED <<globals, heap, cache, errorMessage, ret, args, entry, afterRun,
                   guard, cout, elements, native>>

NextFlatten == WrapBegin \/ FlattenStep \/ FlattenExit \/ WrapEnd

SpecFlatten == InitWrap /\ [][NextFlatten]_vars

(***************************************************************************)
(* Properties of the loop that flattens math.                              *)
(***************************************************************************)
\* the table the call made, and the table math is bound to
NewEnv == heap[Len(entry.heap) + 1]

MathKeys == IF globals["math"].t = "table" THEN DOMAIN heap[globals["math"].n]
                                          ELSE {}

\* C18: whenever lua_next is about to be called the stack is the stack at entry
\* (the function on top) with the new table, math and a key of math (nil before
\* the first pair) above it; after the loop and the pop it is the stack at
\* entry with the new table above it, and the table then holds math[k] under
\* every key k of math, whatever it held under k before.
C18_FlattenShape ==
    LET base == Len(entry.stack)
    IN  /\ pc = "loop" =>
              /\ lua_gettop(stack) = base + 3
              /\ SubSeq(stack, 1, base) = entry.stack
              /\ lua_isfunction(stack, base)
              /\ stack[base + 1] = Tbl(Len(entry.heap) + 1)
              /\ stack[base + 2] = globals["math"]
              /\ stack[base + 3] \in MathKeys \cup {Nil}
        /\ pc = "flattened" =>
              /\ stack = Append(entry.stack, Tbl(Len(entry.heap) + 1))
              /\ lua_isfunction(stack, -2)
              /\ \A k \in MathKeys :
                    TableGet(NewEnv, k) = heap[globals["math"].n][k]

\* math held a key named surge: after the loop the table holds math.surge under
\* it, not the surge library
C18_Witness ==
    /\ pc = "flattened"
    /\ globals["surge"] = SurgeTbl
    /\ Str("surge") \in MathKeys
    /\ TableGet(NewEnv, Str("surge")) = Num(1)
    /\ Len(entry.stack) = 2

=============================================================================
